---------------------------- MODULE Spec2Model ----------------------------
(***************************************************************************)
(* A model of the ECR credential layer: the token authenticator            *)
(* (authenticator.go) and the keychain that memoizes one authenticator per *)
(* registry scope (keychain.go).                                           *)
(*                                                                         *)
(* Strings that the code only compares or concatenates are TLA+ strings.   *)
(* A token is a sequence of one-character strings, decoded bytes are       *)
(* sequences of numbers 0..255.  A Go pointer is an option: <<>> is nil,   *)
(* <<v>> points to v.  Time is a number of clock units.                    *)
(***************************************************************************)
EXTENDS Integers, Sequences, FiniteSets, TLC

(***************************************************************************)
(* Bounds of the model.                                                    *)
(***************************************************************************)
MaxCalls == 3          \* Authorization calls made in all
MaxTime == 4           \* the clock runs from 1 to MaxTime
MaxServerTTL == 3      \* the longest lifetime the token service declares
CustomEarlyExpiry == 2 \* the margin passed where the default is not used
MaxResolves == 3       \* Resolve calls made in all
MaxTTL == 1            \* the max-TTL "X" the specification speaks of

\* aws.ToTime(nil) is the zero time.Time, before every clock reading.
ZeroTime == 0
\* DefaultEarlyExpiry (15 minutes) is one clock unit.
DefaultEarlyExpiry == 1
\* authn.Anonymous; the authenticators Resolve constructs are numbered from 1.
Anonymous == 0

\* The goroutines that call into the package concurrently.
Callers == { "g1", "g2" }

None == <<>>
Some(v) == <<v>>

(***************************************************************************)
(* encoding/base64, StdEncoding: the standard alphabet, '=' padding.       *)
(***************************************************************************)
encodeStd ==
  << "A","B","C","D","E","F","G","H","I","J","K","L","M","N","O","P",
     "Q","R","S","T","U","V","W","X","Y","Z","a","b","c","d","e","f",
     "g","h","i","j","k","l","m","n","o","p","q","r","s","t","u","v",
     "w","x","y","z","0","1","2","3","4","5","6","7","8","9","+","/" >>

StdPadding == "="

Colon == 58

IsStdChar(ch) == \E i \in 1..64 : encodeStd[i] = ch

\* The 6-bit value of an alphabet character.
StdValue(ch) == (CHOOSE i \in 1..64 : encodeStd[i] = ch) - 1

\* EncodeToString: three bytes become four characters, a short last group is padded.
RECURSIVE EncodeToString(_)
EncodeToString(src) ==
  IF Len(src) = 0 THEN << >>
  ELSE IF Len(src) = 1 THEN
    LET v == src[1] * 65536
    IN << encodeStd[(v \div 262144) + 1], encodeStd[((v \div 4096) % 64) + 1],
          StdPadding, StdPadding >>
  ELSE IF Len(src) = 2 THEN
    LET v == src[1] * 65536 + src[2] * 256
    IN << encodeStd[(v \div 262144) + 1], encodeStd[((v \div 4096) % 64) + 1],
          encodeStd[((v \div 64) % 64) + 1], StdPadding >>
  ELSE
    LET v == src[1] * 65536 + src[2] * 256 + src[3]
    IN << encodeStd[(v \div 262144) + 1], encodeStd[((v \div 4096) % 64) + 1],
          encodeStd[((v \div 64) % 64) + 1], encodeStd[(v % 64) + 1] >>
       \o EncodeToString(SubSeq(src, 4, Len(src)))

\* One quantum of four characters; only the last one may carry padding.
QuantumOk(q, last) ==
  /\ IsStdChar(q[1])
  /\ IsStdChar(q[2])
  /\ \/ IsStdChar(q[3]) /\ IsStdChar(q[4])
     \/ last /\ IsStdChar(q[3]) /\ q[4] = StdPadding
     \/ last /\ q[3] = StdPadding /\ q[4] = StdPadding

QuantumBytes(q) ==
  LET v3 == IF q[3] = StdPadding THEN 0 ELSE StdValue(q[3])
      v4 == IF q[4] = StdPadding THEN 0 ELSE StdValue(q[4])
      v == StdValue(q[1]) * 262144 + StdValue(q[2]) * 4096 + v3 * 64 + v4
      b == << v \div 65536, (v \div 256) % 256, v % 256 >>
  IN IF q[3] = StdPadding THEN SubSeq(b, 1, 1)
     ELSE IF q[4] = StdPadding THEN SubSeq(b, 1, 2)
     ELSE b

RECURSIVE DecodeQuanta(_)
DecodeQuanta(s) ==
  IF Len(s) = 0 THEN [err |-> FALSE, bytes |-> << >>]
  ELSE IF Len(s) < 4 THEN [err |-> TRUE, bytes |-> << >>]
  ELSE
    LET q == SubSeq(s, 1, 4)
        rest == SubSeq(s, 5, Len(s))
    IN IF ~QuantumOk(q, Len(rest) = 0) THEN [err |-> TRUE, bytes |-> << >>]
       ELSE LET r == DecodeQuanta(rest)
            IN IF r.err THEN r
               ELSE [err |-> FALSE, bytes |-> QuantumBytes(q) \o r.bytes]

\* DecodeString: carriage returns and newlines are skipped, the rest is decoded
\* quantum by quantum; any other character or a wrong padding is an error.
DecodeString(s) ==
  DecodeQuanta(SelectSeq(s, LAMBDA ch : ch \notin {"\r", "\n"}))

\* Cut gone wrong: the split at the last separator.
CutLast(s, sep) ==
  IF \E i \in 1..Len(s) : s[i] = sep
  THEN LET i == CHOOSE k \in 1..Len(s) : s[k] = sep /\ \A j \in (k + 1)..Len(s) : s[j] # sep
       IN [before |-> SubSeq(s, 1, i - 1), after |-> SubSeq(s, i + 1, Len(s)), found |-> TRUE]
  ELSE [before |-> s, after |-> << >>, found |-> FALSE]

(***************************************************************************)
(* strings.Cut(s, ":"): split at the first separator.                      *)
(***************************************************************************)
Cut(s, sep) ==
  IF \E i \in 1..Len(s) : s[i] = sep
  THEN LET i == CHOOSE k \in 1..Len(s) : s[k] = sep /\ \A j \in 1..(k - 1) : s[j] # sep
       IN [before |-> SubSeq(s, 1, i - 1), after |-> SubSeq(s, i + 1, Len(s)), found |-> TRUE]
  ELSE [before |-> s, after |-> << >>, found |-> FALSE]


(***************************************************************************)
(* The tokens the token service is made to return.                         *)
(***************************************************************************)
Users == { << >>, << 97 >> }
Passwords == { << 98 >>, << Colon, 98 >> }

\* base64(u ":" p)
WellFormedTokens == { EncodeToString(u \o << Colon >> \o p) : u \in Users, p \in Passwords }
\* valid base64 whose decoded bytes hold no ':' (the empty token is one)
NoSeparatorTokens == { EncodeToString(<< 97, 98 >>), << >> }
\* not base64: a truncated quantum, a character outside the alphabet
NotBase64Tokens == { << "Y", "T", "p" >>, << "Y", "T", "!", "i" >> }

Tokens == WellFormedTokens \cup NoSeparatorTokens \cup NotBase64Tokens

\* What the service hands out while two goroutines race: one token of each kind.
FewTokens ==
  { EncodeToString(<< 97, Colon, Colon, 98 >>), EncodeToString(<< 97, 98 >>), << "Y", "T", "p" >> }

ServerTTLs == { 1, MaxServerTTL }

(***************************************************************************)
(* State.                                                                  *)
(***************************************************************************)
VARIABLES
  now,            \* time.Now()
  margin,         \* the earlyExpiry argument the authenticator was built with
  authenticator,  \* the ecrAuthenticator: its earlyExpiry and gat fields
  cache,          \* ecrAuthenticator.cache, the atomic pointer
  pc,             \* where each caller is in Authorization
  cached,         \* each caller's local "cached", the pointer it loaded
  fetched,        \* each caller's locals "token" and "expiry"
  ret,            \* what each caller's last Authorization call returned
  calls,          \* how many Authorization calls have been started
  seen,           \* what each caller's last expiry test found: "nil", "expired", "fresh"
  active,         \* the goroutines that call Authorization
  repertoire,     \* the tokens the token service hands out
  fetches,        \* gat invocations in all
  winFetches,     \* gat invocations since the cache last turned empty or expired
  winCalls,       \* calls that could observe the cache since then
  keychain,       \* the ecrKeychain: cfg, cache (the map), earlyExpiry
  resolves,       \* how many Resolve calls have been started
  cacheMu,        \* ecrKeychain.cacheMu: the readers and the writer holding it
  heap,           \* the authenticators constructed so far, by identity
  rpc,            \* where each caller is in Resolve
  frame,          \* each Resolve caller's locals: resource, reg, key, auth
  rret,           \* what each caller's last Resolve call returned
  resolved        \* every (resource, reg, authenticator) a Resolve call returned

authVars == << now, margin, authenticator, cache, pc, cached, fetched, ret, calls, seen,
               active, repertoire, fetches, winFetches, winCalls >>
keyVars == << keychain, resolves, cacheMu, heap, rpc, frame, rret, resolved >>
vars == << authVars, keyVars >>

(***************************************************************************)
(* authenticator.go                                                        *)
(***************************************************************************)

\* Before gone wrong: the comparison reversed.
After(t, u) == u < t

\* Before gone wrong: the expiry instant itself still counts as before.
NotAfter(t, u) == t <= u

\* time.Time.Before
Before(t, u) == t < u

\* aws.ToTime: the zero time for a nil pointer
ToTime(p) == IF p = None THEN ZeroTime ELSE p[1]

\* aws.ToString: the empty string for a nil pointer
AwsToString(p) == IF p = None THEN << >> ELSE p[1]

\* The SDK's GetAuthorizationToken outputs.  ecr returns a list of authorization
\* data, ecrpublic a single one; the token and the expiry are pointers.
AuthorizationDatas(t) ==
  { [AuthorizationToken |-> Some(tok), ExpiresAt |-> e] :
      tok \in repertoire, e \in { None } \cup { Some(t + ttl) : ttl \in ServerTTLs } }
  \cup { [AuthorizationToken |-> None, ExpiresAt |-> Some(t + 1)] }

ServerOutputs(service, t) ==
  IF service = "ecr"
  THEN { [err |-> TRUE, AuthorizationData |-> << >>],
         [err |-> FALSE, AuthorizationData |-> << >>] }
       \cup { [err |-> FALSE, AuthorizationData |-> << d >>] : d \in AuthorizationDatas(t) }
       \cup { [err |-> FALSE,
               AuthorizationData |-> << d, [AuthorizationToken |-> None, ExpiresAt |-> None] >>] :
                 d \in { x \in AuthorizationDatas(t) :
                           x.ExpiresAt = Some(t + 1) } }
  ELSE { [err |-> TRUE, AuthorizationData |-> [AuthorizationToken |-> None, ExpiresAt |-> None]] }
       \cup { [err |-> FALSE, AuthorizationData |-> d] : d \in AuthorizationDatas(t) }

\* The closure gone wrong: a missing token is not noticed.
ecrGatUnchecked(out) ==
  IF out.err
  THEN [token |-> None, expiry |-> None, err |-> "(*ecr.Client).GetAuthorizationToken failed"]
  ELSE IF Len(out.AuthorizationData) = 0
  THEN [token |-> None, expiry |-> None,
        err |-> "(*ecr.Client).GetAuthorizationToken returned no authorization data"]
  ELSE [token |-> out.AuthorizationData[1].AuthorizationToken,
        expiry |-> out.AuthorizationData[1].ExpiresAt, err |-> ""]

\* The closure NewAuthenticatorWithEarlyExpiry binds to gat.
ecrGat(out) ==
  IF out.err
  THEN [token |-> None, expiry |-> None, err |-> "(*ecr.Client).GetAuthorizationToken failed"]
  ELSE IF Len(out.AuthorizationData) = 0 \/ out.AuthorizationData[1].AuthorizationToken = None
  THEN [token |-> None, expiry |-> None,
        err |-> "(*ecr.Client).GetAuthorizationToken returned no authorization data"]
  ELSE [token |-> out.AuthorizationData[1].AuthorizationToken,
        expiry |-> out.AuthorizationData[1].ExpiresAt, err |-> ""]

\* The closure NewPublicAuthenticatorWithEarlyExpiry binds to gat.
ecrpublicGat(out) ==
  IF out.err
  THEN [token |-> None, expiry |-> None, err |-> "(*ecrpublic.Client).GetAuthorizationToken failed"]
  ELSE IF out.AuthorizationData.AuthorizationToken = None
  THEN [token |-> None, expiry |-> None,
        err |-> "(*ecrpublic.Client).GetAuthorizationToken returned no authorization data"]
  ELSE [token |-> out.AuthorizationData.AuthorizationToken,
        expiry |-> out.AuthorizationData.ExpiresAt, err |-> ""]

gat(a, out) == IF a.gat.service = "ecr" THEN ecrGat(out) ELSE ecrpublicGat(out)

\* The struct literal sets gat alone: earlyExpiry keeps its zero value.
NewAuthenticatorWithEarlyExpiry(client, earlyExpiry) ==
  [earlyExpiry |-> 0, gat |-> [service |-> "ecr", client |-> client]]

NewPublicAuthenticatorWithEarlyExpiry(client, earlyExpiry) ==
  [earlyExpiry |-> 0, gat |-> [service |-> "ecrpublic", client |-> client]]

NewAuthenticator(client) == NewAuthenticatorWithEarlyExpiry(client, DefaultEarlyExpiry)

NewPublicAuthenticator(client) == NewPublicAuthenticatorWithEarlyExpiry(client, DefaultEarlyExpiry)

\* The margin gone wrong: the snapshot is kept past the server's expiry.
ExpiresAtLate(a, expiry) == ToTime(expiry) + a.earlyExpiry + 1

\* The expiry gone another way: clamped to MaxTTL past the clock.
ExpiresAtClamped(a, expiry) ==
  IF ToTime(expiry) - a.earlyExpiry > now + MaxTTL
  THEN now + MaxTTL
  ELSE ToTime(expiry) - a.earlyExpiry

\* aws.ToTime(expiry).Add(-authenticator.earlyExpiry)
ExpiresAt(a, expiry) == ToTime(expiry) - a.earlyExpiry

\* The snapshot Authorization stores.  "declared", the expiry the server declared,
\* is history: the code keeps AuthConfig and ExpiresAt.
cachedAuthConfig(a, authConfig, expiry) ==
  [AuthConfig |-> authConfig, ExpiresAt |-> ExpiresAt(a, expiry), declared |-> ToTime(expiry)]

InvalidTokenError == "(*ecr.Client).GetAuthorizationToken returned an invalid token: illegal base64 data"
MissingColonError == "(*ecr.Client).GetAuthorizationToken returned an invalid token: missing ':'"

\* The decoding gone wrong: the "ok" of strings.Cut is not looked at.
DecodeTokenLenient(token) ==
  LET d == DecodeString(AwsToString(token))
      c == Cut(d.bytes, Colon)
  IN IF d.err THEN [AuthConfig |-> None, err |-> InvalidTokenError]
     ELSE [AuthConfig |-> Some([Username |-> c.before, Password |-> c.after]), err |-> ""]

\* Lines 49-58: decode the token, cut it at the first ':'.
DecodeToken(token) ==
  LET d == DecodeString(AwsToString(token))
      c == Cut(d.bytes, Colon)
  IN IF d.err THEN [AuthConfig |-> None, err |-> InvalidTokenError]
     ELSE IF ~c.found THEN [AuthConfig |-> None, err |-> MissingColonError]
     ELSE [AuthConfig |-> Some([Username |-> c.before, Password |-> c.after]), err |-> ""]

NoResult == [AuthConfig |-> None, err |-> "", path |-> "none"]
NoFetch == [token |-> None, expiry |-> None]

\* The cache serves: it holds a snapshot and the clock is before its ExpiresAt.
Fresh(slot, t) == slot # None /\ t < slot[1].ExpiresAt

\* A window opens when the cache turns from serving to empty or expired.
WindowOpens(slot, t, slot2, t2) == Fresh(slot, t) /\ ~Fresh(slot2, t2)

\* Authorization, line 39: cache.Load().
Load(c) ==
  /\ c \in active
  /\ pc[c] = "idle"
  /\ calls < MaxCalls
  /\ calls' = calls + 1
  /\ cached' = [cached EXCEPT ![c] = cache]
  /\ fetched' = [fetched EXCEPT ![c] = NoFetch]
  /\ ret' = [ret EXCEPT ![c] = NoResult]
  /\ pc' = [pc EXCEPT ![c] = "check"]
  /\ winCalls' = winCalls + 1
  /\ UNCHANGED << now, margin, authenticator, cache, seen, active, repertoire, fetches,
                  winFetches >>

\* The miss gone wrong: a caller waits while another caller's fetch is in flight.
CheckSingleFlight(c) ==
  /\ pc[c] = "check"
  /\ IF cached[c] # None /\ Before(now, cached[c][1].ExpiresAt)
     THEN /\ ret' = [ret EXCEPT ![c] = [AuthConfig |-> Some(cached[c][1].AuthConfig),
                                        err |-> "", path |-> "cache"]]
          /\ pc' = [pc EXCEPT ![c] = "idle"]
          /\ seen' = [seen EXCEPT ![c] = "fresh"]
          /\ UNCHANGED << fetches, winFetches >>
     ELSE /\ \A d \in Callers \ { c } : pc[d] \notin { "gat", "decode" }
          /\ pc' = [pc EXCEPT ![c] = "gat"]
          /\ seen' = [seen EXCEPT ![c] = IF cached[c] = None THEN "nil" ELSE "expired"]
          /\ fetches' = fetches + 1
          /\ winFetches' = winFetches + 1
          /\ UNCHANGED ret
  /\ cached' = [cached EXCEPT ![c] = None]
  /\ UNCHANGED << now, margin, authenticator, cache, fetched, calls, active, repertoire, winCalls >>

\* Authorization, lines 39-44: the expiry test against time.Now(); a miss goes on
\* to invoke gat.
Check(c) ==
  /\ pc[c] = "check"
  /\ IF cached[c] # None /\ Before(now, cached[c][1].ExpiresAt)
     THEN /\ ret' = [ret EXCEPT ![c] = [AuthConfig |-> Some(cached[c][1].AuthConfig),
                                        err |-> "", path |-> "cache"]]
          /\ pc' = [pc EXCEPT ![c] = "idle"]
          /\ seen' = [seen EXCEPT ![c] = "fresh"]
          /\ UNCHANGED << fetches, winFetches >>
     ELSE /\ pc' = [pc EXCEPT ![c] = "gat"]
          /\ seen' = [seen EXCEPT ![c] = IF cached[c] = None THEN "nil" ELSE "expired"]
          /\ fetches' = fetches + 1
          /\ winFetches' = winFetches + 1
          /\ UNCHANGED ret
  /\ cached' = [cached EXCEPT ![c] = None]
  /\ UNCHANGED << now, margin, authenticator, cache, fetched, calls, active, repertoire, winCalls >>

\* The call gone wrong: a failed gat is invoked once more instead of returned.
GatRetries(c, out) ==
  /\ pc[c] = "gat"
  /\ LET r == gat(authenticator, out)
     IN IF r.err # ""
        THEN /\ fetches' = fetches + 1
             /\ winFetches' = winFetches + 1
             /\ UNCHANGED << ret, pc, fetched >>
        ELSE /\ fetched' = [fetched EXCEPT ![c] = [token |-> r.token, expiry |-> r.expiry]]
             /\ pc' = [pc EXCEPT ![c] = "decode"]
             /\ UNCHANGED << ret, fetches, winFetches >>
  /\ UNCHANGED << now, margin, authenticator, cache, cached, calls, seen, active, repertoire,
                  winCalls >>

\* Authorization, lines 44-47: gat returns what it made of the service's output.
GatReturns(c, out) ==
  /\ pc[c] = "gat"
  /\ LET r == gat(authenticator, out)
     IN IF r.err # ""
        THEN /\ ret' = [ret EXCEPT ![c] = [AuthConfig |-> None, err |-> r.err, path |-> "gat"]]
             /\ pc' = [pc EXCEPT ![c] = "idle"]
             /\ UNCHANGED fetched
        ELSE /\ fetched' = [fetched EXCEPT ![c] = [token |-> r.token, expiry |-> r.expiry]]
             /\ pc' = [pc EXCEPT ![c] = "decode"]
             /\ UNCHANGED ret
  /\ UNCHANGED << now, margin, authenticator, cache, cached, calls, seen, active, repertoire,
                  fetches, winFetches, winCalls >>

Gat(c) == \E out \in ServerOutputs(authenticator.gat.service, now) : GatReturns(c, out)

\* The failure gone wrong: a token that fails to decode empties the cache.
StoreClearsOnError(c) ==
  /\ pc[c] = "decode"
  /\ LET d == DecodeToken(fetched[c].token)
     IN IF d.err # ""
        THEN /\ ret' = [ret EXCEPT ![c] = [AuthConfig |-> None, err |-> d.err, path |-> "decode"]]
             /\ cache' = None
             /\ UNCHANGED << winFetches, winCalls >>
        ELSE /\ cache' = Some(cachedAuthConfig(authenticator, d.AuthConfig[1], fetched[c].expiry))
             /\ ret' = [ret EXCEPT ![c] = [AuthConfig |-> d.AuthConfig, err |-> "", path |-> "store"]]
             /\ IF WindowOpens(cache, now, cache', now)
                THEN /\ winFetches' = 0
                     /\ winCalls' = Cardinality({ k \in Callers : k # c /\ pc[k] = "check" })
                ELSE UNCHANGED << winFetches, winCalls >>
  /\ pc' = [pc EXCEPT ![c] = "idle"]
  /\ fetched' = [fetched EXCEPT ![c] = NoFetch]
  /\ UNCHANGED << now, margin, authenticator, cached, calls, seen, active, repertoire, fetches >>

\* The store gone wrong: the snapshot is overwritten in place, under the callers
\* that loaded it.
StoreInPlace(c) ==
  /\ pc[c] = "decode"
  /\ LET d == DecodeToken(fetched[c].token)
     IN IF d.err # ""
        THEN /\ ret' = [ret EXCEPT ![c] = [AuthConfig |-> None, err |-> d.err, path |-> "decode"]]
             /\ UNCHANGED << cache, cached, winFetches, winCalls >>
        ELSE /\ cache' = Some(cachedAuthConfig(authenticator, d.AuthConfig[1], fetched[c].expiry))
             /\ cached' = [k \in Callers |-> IF cached[k] # None THEN cache' ELSE cached[k]]
             /\ ret' = [ret EXCEPT ![c] = [AuthConfig |-> d.AuthConfig, err |-> "", path |-> "store"]]
             /\ IF WindowOpens(cache, now, cache', now)
                THEN /\ winFetches' = 0
                     /\ winCalls' = Cardinality({ k \in Callers : k # c /\ pc[k] = "check" })
                ELSE UNCHANGED << winFetches, winCalls >>
  /\ pc' = [pc EXCEPT ![c] = "idle"]
  /\ fetched' = [fetched EXCEPT ![c] = NoFetch]
  /\ UNCHANGED << now, margin, authenticator, calls, seen, active, repertoire, fetches >>

\* The return gone wrong: a token that fails to decode is fetched once more.
StoreRefetches(c) ==
  /\ pc[c] = "decode"
  /\ LET d == DecodeToken(fetched[c].token)
     IN IF d.err # ""
        THEN /\ pc' = [pc EXCEPT ![c] = "gat"]
             /\ fetches' = fetches + 1
             /\ winFetches' = winFetches + 1
             /\ UNCHANGED << cache, ret, winCalls >>
        ELSE /\ cache' = Some(cachedAuthConfig(authenticator, d.AuthConfig[1], fetched[c].expiry))
             /\ ret' = [ret EXCEPT ![c] = [AuthConfig |-> d.AuthConfig, err |-> "", path |-> "store"]]
             /\ pc' = [pc EXCEPT ![c] = "idle"]
             /\ fetches' = fetches
             /\ IF WindowOpens(cache, now, cache', now)
                THEN /\ winFetches' = 0
                     /\ winCalls' = Cardinality({ k \in Callers : k # c /\ pc[k] = "check" })
                ELSE UNCHANGED << winFetches, winCalls >>
  /\ fetched' = [fetched EXCEPT ![c] = NoFetch]
  /\ UNCHANGED << now, margin, authenticator, cached, calls, seen, active, repertoire >>

\* Authorization, lines 49-65: decode, then cache.Store and return.
Store(c) ==
  /\ pc[c] = "decode"
  /\ LET d == DecodeToken(fetched[c].token)
     IN IF d.err # ""
        THEN /\ ret' = [ret EXCEPT ![c] = [AuthConfig |-> None, err |-> d.err, path |-> "decode"]]
             /\ UNCHANGED << cache, winFetches, winCalls >>
        ELSE /\ cache' = Some(cachedAuthConfig(authenticator, d.AuthConfig[1], fetched[c].expiry))
             /\ ret' = [ret EXCEPT ![c] = [AuthConfig |-> d.AuthConfig, err |-> "", path |-> "store"]]
             /\ IF WindowOpens(cache, now, cache', now)
                THEN /\ winFetches' = 0
                     /\ winCalls' = Cardinality({ k \in Callers : k # c /\ pc[k] = "check" })
                ELSE UNCHANGED << winFetches, winCalls >>
  /\ pc' = [pc EXCEPT ![c] = "idle"]
  /\ fetched' = [fetched EXCEPT ![c] = NoFetch]
  /\ UNCHANGED << now, margin, authenticator, cached, calls, seen, active, repertoire, fetches >>

\* The clock advances.
Tick ==
  /\ now < MaxTime
  /\ now' = now + 1
  /\ IF WindowOpens(cache, now, cache, now')
     THEN /\ winFetches' = 0
          /\ winCalls' = Cardinality({ k \in Callers : pc[k] = "check" })
     ELSE UNCHANGED << winFetches, winCalls >>
  /\ UNCHANGED << margin, authenticator, cache, pc, cached, fetched, ret, calls, seen,
                  active, repertoire, fetches >>

(***************************************************************************)
(* The registry hostname parser.  A hostname is the sequence of its labels.*)
(***************************************************************************)
ecrPublicDomain == "ecr.aws"

Regions == { "us-west-2", "eu-central-1", "us-gov-west-1" }
Accounts == { "123456789012", "999" }
DNSSuffixes == { << "amazonaws", "com" >>, << "amazonaws", "com", "cn" >> }

RECURSIVE Join(_)
Join(labels) ==
  IF Len(labels) = 0 THEN ""
  ELSE IF Len(labels) = 1 THEN labels[1]
  ELSE labels[1] \o "." \o Join(Tail(labels))

\* Parse: the public domain, or <account>.dkr[-fips].ecr.<region>.<suffix>; nil otherwise.
Parse(hostname) ==
  IF hostname = << "public", "ecr", "aws" >>
  THEN Some([DNSSuffix |-> ecrPublicDomain, Region |-> "us-east-1", FIPS |-> FALSE])
  ELSE IF /\ Len(hostname) > 4
          /\ hostname[1] \in Accounts
          /\ hostname[2] \in { "dkr", "dkr-fips" }
          /\ hostname[3] = "ecr"
          /\ hostname[4] \in Regions
          /\ SubSeq(hostname, 5, Len(hostname)) \in DNSSuffixes
  THEN Some([DNSSuffix |-> Join(SubSeq(hostname, 5, Len(hostname))),
             Region |-> hostname[4],
             FIPS |-> hostname[2] = "dkr-fips"])
  ELSE None

\* The registries Resolve is asked about.
Resources ==
  { << "123456789012", "dkr", "ecr", "us-west-2", "amazonaws", "com" >>,
    << "999", "dkr", "ecr", "us-west-2", "amazonaws", "com" >>,
    << "999", "dkr-fips", "ecr", "us-gov-west-1", "amazonaws", "com" >>,
    << "999", "dkr-fips", "ecr", "us-west-2", "amazonaws", "com" >>,
    << "public", "ecr", "aws" >>,
    << "docker", "io" >>,
    << "999", "dkr", "ecr", "amazonaws", "com" >> }

(***************************************************************************)
(* keychain.go                                                             *)
(***************************************************************************)

\* strconv.FormatBool
FormatBool(b) == IF b THEN "true" ELSE "false"

\* The key gone wrong: the FIPS flag is left out.
KeyNoFIPS(reg) == reg.DNSSuffix \o "/" \o reg.Region

\* Resolve, line 30.
Key(reg) == reg.DNSSuffix \o "/" \o reg.Region \o "/" \o FormatBool(reg.FIPS)

\* The options gone wrong: the descriptor's FIPS flag is not threaded through.
ecrNewFromConfigNoFIPS(cfg, reg) ==
  [service |-> "ecr", Region |-> reg.Region, UseFIPSEndpoint |-> cfg.UseFIPSEndpoint]

\* ecr.NewFromConfig with the options Resolve sets (lines 43-48).
ecrNewFromConfig(cfg, reg) ==
  [service |-> "ecr", Region |-> reg.Region,
   UseFIPSEndpoint |-> IF reg.FIPS THEN TRUE ELSE cfg.UseFIPSEndpoint]

\* ecrpublic.NewFromConfig with the options Resolve sets (lines 39-41).
ecrpublicNewFromConfig(cfg, reg) ==
  [service |-> "ecrpublic", Region |-> reg.Region, UseFIPSEndpoint |-> cfg.UseFIPSEndpoint]

\* Resolve, lines 37-49: the authenticator built on a miss.
Construct(k, reg) ==
  IF reg.DNSSuffix = ecrPublicDomain
  THEN NewPublicAuthenticatorWithEarlyExpiry(ecrpublicNewFromConfig(k.cfg, reg), k.earlyExpiry)
  ELSE NewAuthenticatorWithEarlyExpiry(ecrNewFromConfig(k.cfg, reg), k.earlyExpiry)

NewKeychainWithEarlyExpiry(cfg, earlyExpiry) ==
  [cfg |-> cfg, cache |-> << >>, earlyExpiry |-> earlyExpiry]

NewKeychain(cfg) == NewKeychainWithEarlyExpiry(cfg, DefaultEarlyExpiry)

\* The map lookup "auth, ok := keychain.cache[key]".
Has(m, key) == key \in DOMAIN m

\* The return gone wrong: an unrecognized registry is an error.
UnrecognizedFails == [auth |-> Anonymous, err |-> "not an ECR registry"]

\* Lines 27-29: what Resolve returns for a registry Parse does not recognize.
Unrecognized == [auth |-> Anonymous, err |-> ""]

\* A return of Resolve; "resolved" keeps what was returned for which registry.
Returned(c, resource, reg, result) ==
  /\ rret' = [rret EXCEPT ![c] = result]
  /\ resolved' = resolved \cup { [resource |-> resource, reg |-> reg, auth |-> result.auth] }

\* Resolve, lines 25-30: parse; an unrecognized registry returns authn.Anonymous.
ResolveStart(c, resource) ==
  /\ rpc[c] = "idle"
  /\ resolves < MaxResolves
  /\ resolves' = resolves + 1
  /\ LET reg == Parse(resource)
     IN IF reg = None
        THEN /\ Returned(c, resource, reg, Unrecognized)
             /\ UNCHANGED << rpc, frame >>
        ELSE /\ frame' = [frame EXCEPT ![c] = [resource |-> resource, reg |-> reg[1],
                                                key |-> Key(reg[1]), auth |-> Anonymous]]
             /\ rpc' = [rpc EXCEPT ![c] = "rlock"]
             /\ UNCHANGED << rret, resolved >>
  /\ UNCHANGED << keychain, cacheMu, heap >>

\* Line 31: cacheMu.RLock() waits while a writer holds the lock.
RLock(c) ==
  /\ rpc[c] = "rlock"
  /\ cacheMu.writer = {}
  /\ cacheMu' = [cacheMu EXCEPT !.readers = @ \cup { c }]
  /\ rpc' = [rpc EXCEPT ![c] = "lookup"]
  /\ UNCHANGED << keychain, resolves, heap, frame, rret, resolved >>

\* The miss path gone wrong: RUnlock only on the hit.
LookupKeepsLock(c) ==
  /\ rpc[c] = "lookup"
  /\ IF Has(keychain.cache, frame[c].key)
     THEN /\ Returned(c, frame[c].resource, Some(frame[c].reg),
                      [auth |-> keychain.cache[frame[c].key], err |-> ""])
          /\ cacheMu' = [cacheMu EXCEPT !.readers = @ \ { c }]
          /\ rpc' = [rpc EXCEPT ![c] = "idle"]
          /\ frame' = [frame EXCEPT ![c] = << >>]
     ELSE /\ rpc' = [rpc EXCEPT ![c] = "construct"]
          /\ UNCHANGED << cacheMu, frame, rret, resolved >>
  /\ UNCHANGED << keychain, resolves, heap >>

\* Lines 32-36: the lookup under the read lock, RUnlock on the hit and on the miss.
Lookup(c) ==
  /\ rpc[c] = "lookup"
  /\ cacheMu' = [cacheMu EXCEPT !.readers = @ \ { c }]
  /\ IF Has(keychain.cache, frame[c].key)
     THEN /\ Returned(c, frame[c].resource, Some(frame[c].reg),
                      [auth |-> keychain.cache[frame[c].key], err |-> ""])
          /\ rpc' = [rpc EXCEPT ![c] = "idle"]
          /\ frame' = [frame EXCEPT ![c] = << >>]
     ELSE /\ rpc' = [rpc EXCEPT ![c] = "construct"]
          /\ UNCHANGED << frame, rret, resolved >>
  /\ UNCHANGED << keychain, resolves, heap >>

\* Lines 37-49: a new authenticator is allocated, outside any lock.
Build(c) ==
  /\ rpc[c] = "construct"
  /\ heap' = Append(heap, Construct(keychain, frame[c].reg))
  /\ frame' = [frame EXCEPT ![c].auth = Len(heap) + 1]
  /\ rpc' = [rpc EXCEPT ![c] = "lock"]
  /\ UNCHANGED << keychain, resolves, cacheMu, rret, resolved >>

\* Line 50: cacheMu.Lock() waits for the readers and the writer to leave.
Lock(c) ==
  /\ rpc[c] = "lock"
  /\ cacheMu.writer = {}
  /\ cacheMu.readers = {}
  /\ cacheMu' = [cacheMu EXCEPT !.writer = { c }]
  /\ rpc' = [rpc EXCEPT ![c] = "recheck"]
  /\ UNCHANGED << keychain, resolves, heap, frame, rret, resolved >>

\* The insertion gone wrong: no re-check under the write lock.
PublishUnchecked(m, key, auth) ==
  [auth |-> auth, cache |-> (key :> auth) @@ [k \in DOMAIN m \ { key } |-> m[k]]]

\* The re-check gone wrong: the instance just built is returned, not the map's.
PublishShadowed(m, key, auth) ==
  IF Has(m, key)
  THEN [auth |-> auth, cache |-> m]
  ELSE [auth |-> auth, cache |-> (key :> auth) @@ m]

\* Lines 52-56: what the call returns under the write lock, and the map after it.
Publish(m, key, auth) ==
  IF Has(m, key)
  THEN [auth |-> m[key], cache |-> m]
  ELSE [auth |-> auth, cache |-> (key :> auth) @@ m]

\* The unlock gone wrong: the caller that lost the race returns with the write lock.
InsertKeepsLock(c) ==
  /\ rpc[c] = "recheck"
  /\ LET p == Publish(keychain.cache, frame[c].key, frame[c].auth)
     IN /\ keychain' = [keychain EXCEPT !.cache = p.cache]
        /\ Returned(c, frame[c].resource, Some(frame[c].reg), [auth |-> p.auth, err |-> ""])
        /\ cacheMu' = IF p.auth = frame[c].auth
                      THEN [cacheMu EXCEPT !.writer = @ \ { c }]
                      ELSE cacheMu
  /\ rpc' = [rpc EXCEPT ![c] = "idle"]
  /\ frame' = [frame EXCEPT ![c] = << >>]
  /\ UNCHANGED << resolves, heap >>

\* Lines 51-56: the re-check, the insertion, the deferred Unlock.
Insert(c) ==
  /\ rpc[c] = "recheck"
  /\ LET p == Publish(keychain.cache, frame[c].key, frame[c].auth)
     IN /\ keychain' = [keychain EXCEPT !.cache = p.cache]
        /\ Returned(c, frame[c].resource, Some(frame[c].reg), [auth |-> p.auth, err |-> ""])
  /\ cacheMu' = [cacheMu EXCEPT !.writer = @ \ { c }]
  /\ rpc' = [rpc EXCEPT ![c] = "idle"]
  /\ frame' = [frame EXCEPT ![c] = << >>]
  /\ UNCHANGED << resolves, heap >>

(***************************************************************************)
(* The specifications.                                                     *)
(***************************************************************************)
Config == [Region |-> "eu-west-1", UseFIPSEndpoint |-> FALSE]

\* The same configuration loaded where FIPS endpoints are switched on for every
\* client (AWS_USE_FIPS_ENDPOINT, use_fips_endpoint).
FIPSConfig == [Region |-> "eu-west-1", UseFIPSEndpoint |-> TRUE]

Client == ecrNewFromConfig(Config, [Region |-> "us-west-2", FIPS |-> FALSE])
PublicClient == ecrpublicNewFromConfig(Config, [Region |-> "us-east-1", FIPS |-> FALSE])

InitKeychainIdle ==
  /\ keychain = NewKeychain(Config)
  /\ resolves = 0
  /\ cacheMu = [readers |-> {}, writer |-> {}]
  /\ heap = << >>
  /\ rpc = [c \in Callers |-> "idle"]
  /\ frame = [c \in Callers |-> << >>]
  /\ rret = [c \in Callers |-> [auth |-> Anonymous, err |-> ""]]
  /\ resolved = {}

InitAuthenticatorIdle ==
  /\ now = 1
  /\ cache = None
  /\ pc = [c \in Callers |-> "idle"]
  /\ cached = [c \in Callers |-> None]
  /\ fetched = [c \in Callers |-> NoFetch]
  /\ ret = [c \in Callers |-> NoResult]
  /\ calls = 0
  /\ seen = [c \in Callers |-> "none"]
  /\ fetches = 0
  /\ winFetches = 0
  /\ winCalls = 0

\* One authenticator, built by either constructor, and the goroutines calling it.
Init ==
  /\ \/ margin = DefaultEarlyExpiry /\ authenticator = NewAuthenticator(Client)
     \/ margin = CustomEarlyExpiry
        /\ authenticator = NewPublicAuthenticatorWithEarlyExpiry(PublicClient, margin)
  /\ \/ active = Callers /\ repertoire = FewTokens
     \/ active = { "g1" } /\ repertoire = Tokens
  /\ InitAuthenticatorIdle
  /\ InitKeychainIdle

Next ==
  \/ \E c \in Callers : Load(c) /\ UNCHANGED keyVars
  \/ \E c \in Callers : Check(c) /\ UNCHANGED keyVars
  \/ \E c \in Callers : Gat(c) /\ UNCHANGED keyVars
  \/ \E c \in Callers : Store(c) /\ UNCHANGED keyVars
  \/ Tick /\ UNCHANGED keyVars

Spec == Init /\ [][Next]_vars

\* One keychain, built by either constructor, and the goroutines resolving with it.
InitResolve ==
  /\ keychain \in { NewKeychain(Config), NewKeychainWithEarlyExpiry(Config, CustomEarlyExpiry),
                    NewKeychain(FIPSConfig) }
  /\ resolves = 0
  /\ cacheMu = [readers |-> {}, writer |-> {}]
  /\ heap = << >>
  /\ rpc = [c \in Callers |-> "idle"]
  /\ frame = [c \in Callers |-> << >>]
  /\ rret = [c \in Callers |-> [auth |-> Anonymous, err |-> ""]]
  /\ resolved = {}
  /\ margin = DefaultEarlyExpiry
  /\ authenticator = NewAuthenticator(Client)
  /\ active = {}
  /\ repertoire = {}
  /\ InitAuthenticatorIdle

NextResolve ==
  \/ \E c \in Callers, resource \in Resources : ResolveStart(c, resource) /\ UNCHANGED authVars
  \/ \E c \in Callers : RLock(c) /\ UNCHANGED authVars
  \/ \E c \in Callers : Lookup(c) /\ UNCHANGED authVars
  \/ \E c \in Callers : Build(c) /\ UNCHANGED authVars
  \/ \E c \in Callers : Lock(c) /\ UNCHANGED authVars
  \/ \E c \in Callers : Insert(c) /\ UNCHANGED authVars

SpecResolve == InitResolve /\ [][NextResolve]_vars

\* A step of the Resolve call caller c is in.
ResolveStep(c) ==
  /\ RLock(c) \/ Lookup(c) \/ Build(c) \/ Lock(c) \/ Insert(c)
  /\ UNCHANGED authVars

\* The scheduler runs every goroutine that can take a step, and a goroutine
\* blocked on cacheMu is woken once the lock is free.
SpecResolveFair == SpecResolve /\ \A c \in Callers : WF_vars(ResolveStep(c))



(***************************************************************************)
(* The claims.                                                             *)
(***************************************************************************)

\* C1: any two Resolve calls on one keychain whose hostnames parse to the same
\* (DNSSuffix, Region, FIPS) return the same authenticator instance, in every
\* order and interleaving.
C1_SameInstance ==
  \A r1, r2 \in resolved : (r1.reg # None /\ r1.reg = r2.reg) => r1.auth = r2.auth

\* Two hostnames of one scope have been resolved after both callers built an
\* authenticator for it: one of the two instances was discarded.
C1_Witness ==
  /\ \E r1, r2 \in resolved :
        r1.reg # None /\ r1.reg = r2.reg /\ r1.resource # r2.resource /\ r1.auth = r2.auth
  /\ Len(heap) = 2
  /\ heap[1] = heap[2]
  /\ Cardinality(DOMAIN keychain.cache) = 1

\* C2, as stated: the fetch function is invoked once for each window in which the
\* cache is empty or expired, however many callers there are.
C2_OncePerWindow == winFetches <= 1

\* C2, amended: in a window the fetch function is invoked at most once for each
\* Authorization call that could observe the empty or expired cache, so up to k
\* times for k callers.
C2_OncePerCall == winFetches <= winCalls

\* Both goroutines found the cache empty and both are fetching.
C2_Witness ==
  /\ cache = None
  /\ \A c \in Callers : pc[c] \in { "gat", "decode" }
  /\ winFetches = 2

\* C3: with margin M and a server-declared expiry T, a call whose expiry test runs
\* at a time t with T - M <= t < T goes on to fetch.
C3_EarlyExpiryHonored ==
  [][\A c \in Callers :
       ( /\ pc[c] = "check"
         /\ pc'[c] # "check"
         /\ cached[c] # None
         /\ cached[c][1].declared - margin <= now
         /\ now < cached[c][1].declared ) => pc'[c] = "gat"]_vars

\* C4: a call whose expiry test runs before the ExpiresAt of the snapshot it loaded
\* returns that snapshot's credential and invokes no fetch; when these are the only
\* two calls made, the fetch function has been invoked once.
C4_HitAvoidsFetch ==
  /\ [](\A c \in Callers : (calls = 2 /\ ret[c].path = "cache") => fetches = 1)
  /\ [][\A c \in Callers :
          ( /\ pc[c] = "check"
            /\ pc'[c] # "check"
            /\ cached[c] # None
            /\ now < cached[c][1].ExpiresAt )
          => /\ pc'[c] = "idle"
             /\ ret'[c] = [AuthConfig |-> Some(cached[c][1].AuthConfig), err |-> "",
                           path |-> "cache"]
             /\ fetches' = fetches]_vars

\* The second of two calls was served from the cache the first one filled.
C4_Witness ==
  /\ calls = 2
  /\ fetches = 1
  /\ ret["g1"].path = "store"
  /\ ret["g2"].path = "cache"
  /\ ret["g2"].AuthConfig = ret["g1"].AuthConfig

\* C5: a call whose expiry test runs at or after the ExpiresAt of the snapshot it
\* loaded invokes the fetch function; when it succeeds it returns the credential
\* of the token it fetched and the cache holds that credential with that fetch's expiry.
C5_ExpiryTriggersRefetch ==
  [][\A c \in Callers :
       /\ ( /\ pc[c] = "check"
            /\ pc'[c] # "check"
            /\ cached[c] # None
            /\ now >= cached[c][1].ExpiresAt )
          => (pc'[c] = "gat" /\ fetches' = fetches + 1)
       /\ ( /\ pc[c] = "decode"
            /\ pc'[c] = "idle"
            /\ ret'[c].err = "" )
          => /\ ret'[c].AuthConfig = DecodeToken(fetched[c].token).AuthConfig
             /\ cache' # None
             /\ cache'[1].AuthConfig = ret'[c].AuthConfig[1]
             /\ cache'[1].declared = ToTime(fetched[c].expiry)]_vars

\* A call found an expired snapshot, fetched, and its credential is the cached one.
C5_Witness ==
  \E c \in Callers :
    /\ seen[c] = "expired"
    /\ ret[c].path = "store"
    /\ cache # None
    /\ cache[1].AuthConfig = ret[c].AuthConfig[1]
    /\ Fresh(cache, now)

DecodeErrors == { InvalidTokenError, MissingColonError }

\* C6: a call that fetched a token that is not base64, or whose bytes hold no ':',
\* returns a decode error and no credential and leaves the cache as it is; the
\* cache changes only in the step that decoded a well-formed token.
C6_DecodeFailureKeepsCache ==
  [][/\ \A c \in Callers :
          ( /\ pc[c] = "decode"
            /\ pc'[c] # "decode"
            /\ fetched[c].token[1] \in NotBase64Tokens \cup NoSeparatorTokens )
          => /\ ret'[c].AuthConfig = None
             /\ ret'[c].err \in DecodeErrors
             /\ ret'[c].err = InvalidTokenError <=> fetched[c].token[1] \in NotBase64Tokens
             /\ cache' = cache
     /\ cache' # cache =>
          \E c \in Callers :
            /\ pc[c] = "decode"
            /\ pc'[c] = "idle"
            /\ fetched[c].token[1] \in WellFormedTokens]_vars

\* A call that found an expired snapshot failed to decode its token, and the
\* snapshot is still in place.
C6_Witness ==
  \E c \in Callers :
    /\ seen[c] = "expired"
    /\ ret[c].path = "decode"
    /\ ret[c].err = MissingColonError
    /\ cache # None
    /\ ~Fresh(cache, now)

\* The outputs of the service that carry no token: a failure, no entry, a nil token.
NoTokenOutput(service, out) ==
  \/ out.err
  \/ service = "ecr" /\ Len(out.AuthorizationData) = 0
  \/ service = "ecr" /\ Len(out.AuthorizationData) > 0
       /\ out.AuthorizationData[1].AuthorizationToken = None
  \/ service = "ecrpublic" /\ out.AuthorizationData.AuthorizationToken = None

FetchErrors ==
  { "(*ecr.Client).GetAuthorizationToken failed",
    "(*ecr.Client).GetAuthorizationToken returned no authorization data",
    "(*ecrpublic.Client).GetAuthorizationToken failed",
    "(*ecrpublic.Client).GetAuthorizationToken returned no authorization data" }

\* C7: when the service fails, or returns no entry or a nil token, the call returns
\* a fetch error and no credential and leaves the cache as it is.
C7_FetchFailureKeepsCache ==
  [][\A c \in Callers :
       \A out \in ServerOutputs(authenticator.gat.service, now) :
         (NoTokenOutput(authenticator.gat.service, out) /\ GatReturns(c, out))
         => /\ pc'[c] = "idle"
            /\ ret'[c].AuthConfig = None
            /\ ret'[c].err \in FetchErrors
            /\ cache' = cache
            /\ fetches' = fetches]_vars

\* A call that found an expired snapshot got no authorization data, and the
\* snapshot is still in place.
C7_Witness ==
  \E c \in Callers :
    /\ seen[c] = "expired"
    /\ ret[c].path = "gat"
    /\ ret[c].err = "(*ecr.Client).GetAuthorizationToken returned no authorization data"
    /\ cache # None

\* The keys of the registries Parse recognizes.
RecognizedKeys == { Key(Parse(r)[1]) : r \in { x \in Resources : Parse(x) # None } }

\* C8: Resolve returns no error; for a hostname Parse does not recognize it returns
\* authn.Anonymous, and only calls for recognized hostnames go on to the lock and
\* the map, which holds recognized keys alone.
C8_UnrecognizedIsAnonymous ==
  /\ \A c \in Callers : rret[c].err = ""
  /\ \A r \in resolved : Parse(r.resource) = None => r.auth = Anonymous
  /\ \A r \in resolved : Parse(r.resource) # None => r.auth # Anonymous
  /\ \A c \in Callers : rpc[c] # "idle" => Parse(frame[c].resource) # None
  /\ DOMAIN keychain.cache \subseteq RecognizedKeys
  /\ \A c \in Callers : rpc[c] = "idle" => c \notin cacheMu.readers \cup cacheMu.writer

\* docker.io was resolved to authn.Anonymous while the map held another registry.
C8_Witness ==
  /\ [resource |-> << "docker", "io" >>, reg |-> None, auth |-> Anonymous] \in resolved
  /\ Cardinality(DOMAIN keychain.cache) = 1
  /\ resolves = 2

\* C9: for a token base64(u ":" p) with no ':' in u, a successful call returns
\* username u and password p.
C9_SplitAtFirstColon ==
  [][\A c \in Callers : \A u \in Users, p \in Passwords :
       ( /\ pc[c] = "decode"
         /\ pc'[c] # "decode"
         /\ fetched[c].token = Some(EncodeToString(u \o << Colon >> \o p)) )
       => /\ ret'[c].err = ""
          /\ ret'[c].AuthConfig = Some([Username |-> u, Password |-> p])]_vars

\* A call returned a password that itself holds a ':'.
C9_Witness ==
  \E c \in Callers :
    /\ ret[c].path = "store"
    /\ ret[c].AuthConfig = Some([Username |-> << 97 >>, Password |-> << Colon, 98 >>])

C11_OnePerKeyForGood ==
  /\ [](\A r \in resolved :
          r.reg # None =>
            /\ Has(keychain.cache, Key(r.reg[1]))
            /\ keychain.cache[Key(r.reg[1])] = r.auth)
  /\ [][\A key \in DOMAIN keychain.cache :
          /\ Has(keychain'.cache, key)
          /\ keychain'.cache[key] = keychain.cache[key]]_vars

\* Both callers built an authenticator for one key and both have returned: one
\* instance is the map's value and was returned, the other was returned to nobody.
C11_Witness ==
  /\ Len(heap) = 2
  /\ \A c \in Callers : rpc[c] = "idle"
  /\ Cardinality(DOMAIN keychain.cache) = 1
  /\ \E i, j \in 1..2 :
       /\ i # j
       /\ \A c \in Callers : rret[c].auth = i
       /\ \A r \in resolved : r.auth # j


\* C12: a caller constructing an authenticator holds neither the read nor the
\* write lock; the read lock is held only for the lookup and the write lock only
\* for the re-check and insertion; at most one caller holds the write lock, and
\* none holds the read lock while one does.
C12_NoLockWhileConstructing ==
  /\ \A c \in Callers :
       /\ rpc[c] = "construct" => c \notin cacheMu.readers \cup cacheMu.writer
       /\ c \in cacheMu.readers <=> rpc[c] = "lookup"
       /\ c \in cacheMu.writer <=> rpc[c] = "recheck"
  /\ Cardinality(cacheMu.writer) <= 1
  /\ cacheMu.writer # {} => cacheMu.readers = {}

\* One caller is constructing an authenticator while the other holds the write
\* lock, about to insert the one it built for the same key.
C12_Witness ==
  \E c, d \in Callers :
    /\ rpc[c] = "construct"
    /\ rpc[d] = "recheck"
    /\ cacheMu = [readers |-> {}, writer |-> { d }]
    /\ frame[c].key = frame[d].key


\* C13: a caller that observed a missing or expired cache performs a fetch of its
\* own, whatever the other callers are doing: its expiry test and its fetch can
\* be taken while another caller's fetch is in flight, and each miss adds one
\* invocation.
C13_EachCallerFetches ==
  /\ [](\A c \in Callers :
          /\ pc[c] = "check" => ENABLED Check(c)
          /\ pc[c] = "gat" => ENABLED Gat(c))
  /\ [][\A c \in Callers :
          ( /\ pc[c] = "check"
            /\ pc'[c] # "check"
            /\ ~Fresh(cached[c], now) )
          => /\ pc'[c] = "gat"
             /\ fetches' = fetches + 1]_vars

\* Both callers loaded the same expired snapshot and each has its own fetch in
\* flight: three invocations for three calls.
C13_Witness ==
  /\ cache # None
  /\ \A c \in Callers : seen[c] = "expired" /\ pc[c] \in { "gat", "decode" }
  /\ fetches = 3
  /\ winFetches = 2


\* C14: one Authorization call invokes the fetch function at most once: the
\* invocations are counted only by the step from the expiry test to the fetch,
\* which a call takes once; a call whose fetch or decode fails returns that error
\* and no credential in that same step, with no further invocation.
C14_AtMostOneFetchPerCall ==
  /\ [](fetches + Cardinality({ c \in Callers : pc[c] = "check" }) <= calls)
  /\ [][/\ fetches' # fetches
           => /\ fetches' = fetches + 1
              /\ \E c \in Callers : pc[c] = "check" /\ pc'[c] = "gat"
        /\ \A c \in Callers :
             /\ pc[c] \in { "gat", "decode" } => pc'[c] # "check"
             /\ pc[c] = "decode" => pc'[c] # "gat"
             /\ ( /\ pc[c] = "decode"
                  /\ pc'[c] # "decode"
                  /\ DecodeToken(fetched[c].token).err # "" )
                => /\ pc'[c] = "idle"
                   /\ ret'[c] = [AuthConfig |-> None,
                                 err |-> DecodeToken(fetched[c].token).err,
                                 path |-> "decode"]
                   /\ fetches' = fetches
             /\ ( /\ pc[c] = "gat"
                  /\ pc'[c] = "idle" )
                => /\ ret'[c].AuthConfig = None
                   /\ ret'[c].err # ""
                   /\ ret'[c].path = "gat"
                   /\ fetches' = fetches]_vars

\* Three calls, each of which fetched once and failed, in the fetch or in the
\* decode: three invocations and still no snapshot.
C14_Witness ==
  /\ calls = 3
  /\ fetches = 3
  /\ cache = None
  /\ \A c \in Callers : pc[c] = "idle"
  /\ \E c, d \in Callers : ret[c].path = "gat" /\ ret[d].path = "decode"


\* C15: a snapshot pairs the credential and the expiry of one fetch: the token and
\* the expiry a caller keeps come from one output of the service, a store
\* publishes the credential of that token with the expiry of that same output,
\* a load takes the whole snapshot, and a snapshot a caller has loaded does not
\* change while the caller holds it, whatever is stored meanwhile.
C15_SnapshotOfOneFetch ==
  [][/\ cache' # cache
        => \E c \in Callers :
             /\ pc[c] = "decode"
             /\ DecodeToken(fetched[c].token).err = ""
             /\ cache' = Some([AuthConfig |-> DecodeToken(fetched[c].token).AuthConfig[1],
                               ExpiresAt |-> ToTime(fetched[c].expiry)
                                               - authenticator.earlyExpiry,
                               declared |-> ToTime(fetched[c].expiry)])
     /\ \A c \in Callers :
          /\ (pc[c] = "gat" /\ pc'[c] = "decode")
             => \E out \in ServerOutputs(authenticator.gat.service, now) :
                  /\ gat(authenticator, out).err = ""
                  /\ fetched'[c].token = gat(authenticator, out).token
                  /\ fetched'[c].expiry = gat(authenticator, out).expiry
          /\ (pc[c] = "idle" /\ pc'[c] = "check") => cached'[c] = cache
          /\ (pc[c] = "check" /\ pc'[c] = "check") => cached'[c] = cached[c]]_vars

\* A caller still holds the snapshot it loaded while another caller has stored the
\* snapshot of a later fetch, with a later expiry.
C15_Witness ==
  \E c \in Callers :
    /\ pc[c] = "check"
    /\ cached[c] # None
    /\ cache # None
    /\ cache[1].declared > cached[c][1].declared
    /\ cache[1].ExpiresAt > cached[c][1].ExpiresAt


\* C16: the cache slot starts empty, changes only in the step in which a call that
\* fetched and decoded successfully stores and returns, and once it holds a
\* snapshot it never becomes empty again.
C16_EmptyThenCachedForGood ==
  /\ cache = None
  /\ [][/\ cache # None => cache' # None
        /\ cache' # cache
           => \E c \in Callers :
                /\ pc[c] = "decode"
                /\ pc'[c] = "idle"
                /\ ret'[c].path = "store"
                /\ ret'[c].err = ""
                /\ ret'[c].AuthConfig = Some(cache'[1].AuthConfig)]_vars

\* The slot was filled, the snapshot expired, and both later calls failed, one in
\* the fetch and one in the decode: the slot still holds the snapshot.
C16_Witness ==
  /\ cache # None
  /\ calls = 3
  /\ \A c \in Callers : pc[c] = "idle" /\ seen[c] = "expired"
  /\ \E c, d \in Callers : ret[c].path = "gat" /\ ret[d].path = "decode"


\* The authenticators callers have built and not yet published or discarded, each
\* with the descriptor it was built for.
Built ==
  { [reg |-> frame[c].reg, auth |-> heap[frame[c].auth]] :
      c \in { k \in Callers : rpc[k] \in { "lock", "recheck" } } }

\* C17, as stated: a new authenticator is the public variant exactly when the
\* descriptor's suffix is the public domain, and otherwise the private variant for
\* the descriptor's region whose FIPS endpoint is enabled exactly when the
\* descriptor's FIPS flag is true.
C17_FIPSExactlyWhenFlagged ==
  \A b \in Built :
    /\ b.auth.gat.service = "ecrpublic" <=> b.reg.DNSSuffix = ecrPublicDomain
    /\ b.auth.gat.service = "ecr"
       => /\ b.auth.gat.client.Region = b.reg.Region
          /\ b.auth.gat.client.UseFIPSEndpoint = b.reg.FIPS

\* C17, amended: a new authenticator is the public variant exactly when the
\* descriptor's suffix is the public domain, and otherwise the private variant for
\* the descriptor's region; its FIPS endpoint is enabled when the descriptor's
\* FIPS flag is true, and is as the keychain's configuration has it when the flag
\* is false.
C17_FIPSWhenFlaggedOrConfigured ==
  \A b \in Built :
    /\ b.auth.gat.service \in { "ecr", "ecrpublic" }
    /\ b.auth.gat.service = "ecrpublic" <=> b.reg.DNSSuffix = ecrPublicDomain
    /\ b.auth.gat.client.Region = b.reg.Region
    /\ b.auth.gat.service = "ecr"
       => b.auth.gat.client.UseFIPSEndpoint = (b.reg.FIPS \/ keychain.cfg.UseFIPSEndpoint)

\* Under a configuration without FIPS, one caller has built the FIPS client of a
\* dkr-fips registry and the other the public client.
C17_Witness ==
  /\ ~keychain.cfg.UseFIPSEndpoint
  /\ \E b1, b2 \in Built :
       /\ b1.reg.FIPS
       /\ b1.auth.gat.service = "ecr"
       /\ b1.auth.gat.client.UseFIPSEndpoint
       /\ b2.reg.DNSSuffix = ecrPublicDomain
       /\ b2.auth.gat.service = "ecrpublic"


\* C18: a call that returns a credential from the cache without fetching does so
\* at a time strictly before the server-declared expiry of the snapshot that
\* credential comes from, whatever the other callers have stored meanwhile.
C18_ServedBeforeDeclaredExpiry ==
  [][\A c \in Callers :
       ( /\ pc[c] = "check"
         /\ pc'[c] = "idle"
         /\ ret'[c].path = "cache" )
       => /\ cached[c] # None
          /\ ret'[c].AuthConfig = Some(cached[c][1].AuthConfig)
          /\ now < cached[c][1].declared
          /\ fetches' = fetches]_vars

\* Two fetches were made in one window and a store of one of them is the last
\* thing its caller did; the third call has been served from the cache, one clock
\* unit before the declared expiry of the snapshot the cache holds.
C18_Witness ==
  \E c, d \in Callers :
    /\ c # d
    /\ ret[c].path = "cache"
    /\ ret[d].path = "store"
    /\ calls = 3
    /\ fetches = 2
    /\ winFetches = 2
    /\ cache # None
    /\ cache[1].declared = now + 1
    /\ \A k \in Callers : pc[k] = "idle"


\* The descriptors of the registries Parse recognizes.
Descriptors == { Parse(r)[1] : r \in { x \in Resources : Parse(x) # None } }

\* C19: descriptors that differ in suffix, region or FIPS flag have different
\* keys, and two hostnames with different descriptors are never resolved to the
\* same authenticator instance.
C19_ScopesKeptApart ==
  /\ \A d1, d2 \in Descriptors : d1 # d2 => Key(d1) # Key(d2)
  /\ \A r1, r2 \in resolved :
       (r1.reg # None /\ r2.reg # None /\ r1.reg # r2.reg) => r1.auth # r2.auth
  /\ \A key \in DOMAIN keychain.cache :
       \E d \in Descriptors :
         /\ key = Key(d)
         /\ heap[keychain.cache[key]] = Construct(keychain, d)

\* A dkr and a dkr-fips hostname of one region and one suffix have been resolved,
\* to two authenticators, and a hostname of another region to a third.
C19_Witness ==
  \E r1, r2, r3 \in resolved :
    /\ r1.reg # None /\ r2.reg # None /\ r3.reg # None
    /\ r1.reg[1].DNSSuffix = r2.reg[1].DNSSuffix
    /\ r1.reg[1].Region = r2.reg[1].Region
    /\ r1.reg[1].FIPS # r2.reg[1].FIPS
    /\ r3.reg[1].Region # r1.reg[1].Region
    /\ r1.auth # r2.auth
    /\ r3.auth \notin { r1.auth, r2.auth }


\* C20: under fair scheduling every Resolve call returns; a caller that is not
\* in a call holds neither lock; whenever some call is in progress some call can
\* take a step; and when no call is in progress the lock is free.
C20_EveryCallReturns ==
  /\ \A c \in Callers : (rpc[c] # "idle") ~> (rpc[c] = "idle")
  /\ [](\A c \in Callers : rpc[c] = "idle" => c \notin cacheMu.readers \cup cacheMu.writer)
  /\ []((\E c \in Callers : rpc[c] # "idle") => \E c \in Callers : ENABLED ResolveStep(c))
  /\ []((\A c \in Callers : rpc[c] = "idle") => cacheMu = [readers |-> {}, writer |-> {}])

\* Three calls for one key have returned: one inserted the authenticator it
\* built, one lost the race and discarded its own, one found the entry under the
\* read lock; the lock is free.
C20_Witness ==
  /\ resolves = 3
  /\ Len(heap) = 2
  /\ Cardinality(DOMAIN keychain.cache) = 1
  /\ Cardinality(resolved) = 2
  /\ \A r \in resolved : r.reg # None
  /\ \A c \in Callers : rpc[c] = "idle"
  /\ cacheMu = [readers |-> {}, writer |-> {}]

=============================================================================
